---- MODULE Spec2Model ----
(***************************************************************************)
(* A model of src/src/gfxlowlevel.c: the handle-management layer over the  *)
(* wrapped GPU (libplacebo / Vulkan / SDL) and video (libav) libraries.    *)
(*                                                                         *)
(* Every public operation is one action: the layer is single-threaded and  *)
(* synchronous, so a call runs to its return (or to exit / a crash)        *)
(* before the next one starts.  The wrapped libraries are modelled by      *)
(* what the layer can observe of them: every call into them either         *)
(* succeeds or fails, chosen nondeterministically, and the objects they    *)
(* hand out are tracked in `heap` so that a second release, a release of   *)
(* something never acquired, a leak or a read of freed memory is visible.  *)
(***************************************************************************)
EXTENDS Integers, Sequences, FiniteSets, TLC

VARIABLES
  proc,      \* "running" | "exited" (exit(1)) | "crashed" (null dereference)
  heap,      \* resource -> [st, rel]: status and number of releases of its current incarnation
  events,    \* the wrapped-library calls of the most recent operation, in order
  ret,       \* [op, arg, val, faults]: the most recent operation, what it was given (the
             \* wrapped call that failed, or the kind of handle), its return value, its memory faults
  gpu,       \* the caller's struct gfx_lowlevel_gpu_ctx * and the fields behind it
  acq,       \* history: the resources the most recent gpu_ctx_init acquired, in order
  swGen,     \* the swapchain's frame counter (library state)
  hist,      \* history: the start_frame / finish_frame / handle_resize calls since init
  frame,     \* the caller's struct gfx_lowlevel_frame_ctx * and the fields behind it
  scaled,    \* the most recent sws_scale: the context it used and the frame it was given
  mix,       \* the caller's struct gfx_lowlevel_mix_ctx * handles and the fields behind them
  lut,       \* the caller's struct gfx_lowlevel_lut * and the fields behind it
  lutAcq,    \* history: the resources of the LUT, in the order they were acquired
  rargs,     \* the arguments of the most recent render
  fwd        \* what the most recent render handed to pl_shader_custom and pl_dispatch_finish

gpuVars == <<gpu, acq, swGen, hist>>
frameVars == <<frame, scaled>>
lutVars == <<lut, lutAcq>>
renderVars == <<rargs, fwd>>
vars == <<proc, heap, events, ret, gpuVars, frameVars, mix, lutVars, renderVars>>

----------------------------------------------------------------------------
(* Bounds *)

\* start_frame succeeds at most this many times per run
MaxGen == 2
\* at most this many frame-loop calls are remembered in hist
MaxHist == 4
\* source frames are 1..MaxDim wide and high
MaxDim == 2
\* the caller's shader-variable array has this many entries
MaxVars == 2
\* the caller holds at most this many mix contexts at once
MaxMix == 2
\* render is called with 0..MaxFrames source frames
MaxFrames == 2

----------------------------------------------------------------------------
(* Resources and the heap *)

GpuRes == {"ctx", "log", "vk", "vk_surface", "swchain", "renderer"}
FrameRes == {"frame", "mapping", "tex0", "tex1", "tex2", "tex3", "to_rgba"}
\* per mix context m: the struct, the three copied strings, the copied array, the dispatcher
MixKinds == {"mix", "prelude", "header", "body", "vars", "dispatch"}
MixNames == [k \in MixKinds, m \in 1..MaxMix |-> k \o ToString(m)]
MixR(kind, m) == MixNames[kind, m]
MixOf == [m \in 1..MaxMix |-> {MixR(k, m) : k \in MixKinds}]
MixRes == UNION {MixOf[m] : m \in 1..MaxMix}
\* the caller's own memory: entry i's var.name and data
CallerNames == [i \in 1..MaxVars |-> <<"caller_name" \o ToString(i), "caller_data" \o ToString(i)>>]
VarName(i) == CallerNames[i][1]
VarData(i) == CallerNames[i][2]
CallerRes == {VarName(i) : i \in 1..MaxVars} \cup {VarData(i) : i \in 1..MaxVars}
LutRes == {"lut_struct", "lut_filename", "lut_parsed", "lut_state"}
\* "sh": the shader pl_dispatch_begin hands out
ResIds == GpuRes \cup FrameRes \cup MixRes \cup CallerRes \cup LutRes \cup {"sh"}

Fresh == [st |-> "none", rel |-> 0]

Acq(r)  == [call |-> "acquire", obj |-> r, via |-> "none"]
\* a release of r that reads through the object `via` to do it
Rel(r, via) == [call |-> "release", obj |-> r, via |-> via]
Call(name) == [call |-> name, obj |-> "none", via |-> "none"]

\* one wrapped-library call applied to the heap
ApplyEvent(h, e) ==
  IF e.call = "acquire" THEN [h EXCEPT ![e.obj] = [st |-> "live", rel |-> 0]]
  ELSE IF e.call = "release"
       THEN [h EXCEPT ![e.obj] = [st |-> "freed",
                                  rel |-> IF @.rel < 2 THEN @.rel + 1 ELSE 2]]
  ELSE h

RECURSIVE ApplyEvents(_, _)
ApplyEvents(h, evs) ==
  IF evs = <<>> THEN h ELSE ApplyEvents(ApplyEvent(h, Head(evs)), Tail(evs))

\* the memory faults of running evs from heap h: a release of something not
\* live, or a call that reads through an object that is no longer live
RECURSIVE FaultsOf(_, _)
FaultsOf(h, evs) ==
  IF evs = <<>> THEN {}
  ELSE LET e == Head(evs) IN
       (IF e.call = "release" /\ h[e.obj].st # "live" THEN {"bad_release"} ELSE {})
       \cup (IF e.via # "none" /\ h[e.via].st # "live" THEN {"use_after_free"} ELSE {})
       \cup FaultsOf(ApplyEvent(h, e), Tail(evs))

\* resources that stay allocated with no pointer left to them
Leak(h, rs) == [r \in DOMAIN h |-> IF r \in rs /\ h[r].st = "live"
                                   THEN [h[r] EXCEPT !.st = "leaked"] ELSE h[r]]

\* how a destroy operation was called: with NULL, with a pointer to a NULL
\* handle, or with a pointer to a live handle
DestroyArg(argNull, handle) == IF argNull THEN "NULL" ELSE IF handle THEN "live" ELSE "null_handle"

Releases(evs) == SelectSeq(evs, LAMBDA e : e.call = "release")
Acquires(evs) == SelectSeq(evs, LAMBDA e : e.call = "acquire")
Objs(evs) == [i \in 1..Len(evs) |-> evs[i].obj]
Reverse(s) == [i \in 1..Len(s) |-> s[Len(s) + 1 - i]]

----------------------------------------------------------------------------
(* struct gfx_lowlevel_gpu_ctx *)

NoFwd == [custom |-> "none", target |-> "none"]
NoArgs == [nulls |-> {}, params |-> "none", dst_frame |-> "none", src_frames |-> <<>>,
           num_frames |-> 0, debug |-> FALSE]

\* memset(ctx, 0, ...): every handle NULL, started false
GpuZero == [handle |-> FALSE, log |-> FALSE, vk |-> FALSE, vk_surface |-> FALSE,
            swchain |-> FALSE, renderer |-> FALSE, started |-> FALSE,
            swap_frame |-> 0, window_frame |-> 0]

\* what each handle is created from: pl_vulkan_create(ctx->log, ...),
\* SDL_Vulkan_CreateSurface(window, ctx->vk->instance, ...),
\* pl_vulkan_create_swapchain(ctx->vk, {.surface = ctx->vk_surface}),
\* pl_renderer_create(ctx->log, ctx->vk->gpu)
CreatedFrom(r) ==
  CASE r = "vk" -> {"log"}
    [] r = "vk_surface" -> {"vk"}
    [] r = "swchain" -> {"vk", "vk_surface"}
    [] r = "renderer" -> {"log", "vk"}
    [] r \in {"log", "ctx"} -> {}
    [] OTHER -> {}

\* a destroy that releases the Vulkan context before the surface made from it
DestroyOrderVkFirst == <<"renderer", "swchain", "vk", "vk_surface", "log">>

\* the order in which gfx_lowlevel_gpu_ctx_destroy tests and releases the fields
DestroyOrder == <<"renderer", "swchain", "vk_surface", "vk", "log">>

\* what the release of each field reads: vkDestroySurfaceKHR takes
\* (*ctx)->vk->instance; the pl_*_destroy calls take only their own handle
DestroyVia(r) == IF r = "vk_surface" THEN "vk" ELSE "none"

\* gfx_lowlevel_gpu_ctx_destroy on a non-NULL *ctx with fields g:
\* the wrapped-library calls it makes, then free(*ctx)
GpuDestroyEvents(g) ==
  LET held == SelectSeq(DestroyOrder, LAMBDA r : g[r])
  IN  [i \in 1..Len(held) |-> Rel(held[i], DestroyVia(held[i]))] \o <<Rel("ctx", "none")>>

\* the steps of gfx_lowlevel_gpu_ctx_init that can fail, in order
InitSteps == <<"ctx", "log", "vk", "vk_surface", "swchain", "resize", "renderer">>
StepIndex(s) == CHOOSE i \in 1..Len(InitSteps) : InitSteps[i] = s

\* the steps that ran successfully before the step `fail` ("none": all of them)
StepsDone(fail) ==
  IF fail = "none" THEN InitSteps ELSE SubSeq(InitSteps, 1, StepIndex(fail) - 1)

\* the fields of the struct once the steps `done` have run
GpuAfter(done) ==
  LET has(r) == \E i \in 1..Len(done) : done[i] = r
  IN  [GpuZero EXCEPT !.handle = has("ctx"), !.log = has("log"), !.vk = has("vk"),
                      !.vk_surface = has("vk_surface"), !.swchain = has("swchain"),
                      !.renderer = has("renderer")]

\* the wrapped-library calls of the steps `done`
InitEvents(done) ==
  [i \in 1..Len(done) |-> IF done[i] = "resize" THEN Call("pl_swapchain_resize")
                          ELSE Acq(done[i])]

\* whether the failure branch of step `fail` calls gfx_lowlevel_gpu_ctx_destroy
\* before it returns NULL: every branch does but the malloc one (nothing to
\* destroy) and the SDL_Vulkan_CreateSurface one (a bare return NULL)
InitCleansUp(fail) == fail \notin {"none", "ctx", "vk_surface"}

gfx_lowlevel_gpu_ctx_init(fail) ==
  /\ proc = "running"
  /\ ~gpu.handle
  /\ LET done == StepsDone(fail)
         g    == GpuAfter(done)
         evs  == InitEvents(done) \o (IF InitCleansUp(fail) THEN GpuDestroyEvents(g) ELSE <<>>)
         h    == ApplyEvents(heap, evs)
     IN  /\ events' = evs
         /\ acq' = Objs(Acquires(InitEvents(done)))
         /\ gpu' = IF fail = "none" THEN g ELSE GpuZero
         \* a failed init returns NULL: whatever it still holds is lost
         /\ heap' = IF fail = "none" THEN h ELSE Leak(h, GpuRes)
         /\ ret' = [op |-> "gpu_ctx_init", arg |-> fail, val |-> IF fail = "none" THEN "ctx" ELSE "NULL",
                    faults |-> FaultsOf(heap, evs)]
  /\ hist' = <<>>
  /\ UNCHANGED <<proc, swGen, frameVars, mix, lutVars, renderVars>>

\* gfx_lowlevel_gpu_ctx_destroy(&ctx), ctx NULL or live; argNull: destroy(NULL)
gfx_lowlevel_gpu_ctx_destroy(argNull) ==
  /\ proc = "running"
  /\ LET evs == IF argNull \/ ~gpu.handle THEN <<>> ELSE GpuDestroyEvents(gpu)
     IN  /\ events' = evs
         /\ heap' = ApplyEvents(heap, evs)
         /\ gpu' = IF argNull THEN gpu ELSE GpuZero
         /\ ret' = [op |-> "gpu_ctx_destroy", arg |-> DestroyArg(argNull, gpu.handle),
                    val |-> "void", faults |-> FaultsOf(heap, evs)]
  \* history: what still points at the freed struct is now stale
  /\ frame' = IF ~argNull /\ gpu.handle /\ frame.backref THEN [frame EXCEPT !.stale = TRUE]
               ELSE frame
  /\ UNCHANGED <<proc, acq, swGen, hist, scaled, mix, lutVars, renderVars>>

Remember(h, e) == IF Len(h) < MaxHist THEN Append(h, e) ELSE h

\* gfx_lowlevel_gpu_ctx_handle_resize on a context init returned
gfx_lowlevel_gpu_ctx_handle_resize(ok) ==
  /\ proc = "running"
  /\ gpu.handle
  /\ Len(hist) < MaxHist
  /\ events' = IF gpu.swchain THEN <<Call("pl_swapchain_resize")>> ELSE <<>>
  /\ ret' = [op |-> "handle_resize", arg |-> IF ok THEN "none" ELSE "pl_swapchain_resize",
             val |-> IF gpu.swchain /\ ok THEN "0" ELSE "-1",
             faults |-> {}]
  /\ hist' = Remember(hist, [op |-> "resize", val |-> ok])
  /\ UNCHANGED <<proc, heap, gpu, acq, swGen, frameVars, mix, lutVars, renderVars>>

\* a start_frame that sets the flag before it looks at the result
StartFrameFieldsEager(g, ok, gen) ==
  IF ok THEN [g EXCEPT !.started = TRUE, !.swap_frame = gen, !.window_frame = gen]
  ELSE [g EXCEPT !.started = TRUE]

\* what start_frame writes when pl_swapchain_start_frame returned `ok`
StartFrameFields(g, ok, gen) ==
  IF ok THEN [g EXCEPT !.started = TRUE, !.swap_frame = gen, !.window_frame = gen]
  ELSE g

\* gfx_lowlevel_gpu_ctx_start_frame; its three asserts are the guard
gfx_lowlevel_gpu_ctx_start_frame(ok) ==
  /\ proc = "running"
  /\ gpu.handle /\ gpu.swchain /\ ~gpu.started
  /\ Len(hist) < MaxHist
  /\ ok => swGen < MaxGen
  /\ swGen' = IF ok THEN swGen + 1 ELSE swGen
  /\ gpu' = StartFrameFields(gpu, ok, swGen + 1)
  /\ events' = <<Call("pl_swapchain_start_frame")>>
                 \o (IF ok THEN <<Call("pl_frame_from_swapchain")>> ELSE <<>>)
  /\ ret' = [op |-> "start_frame", arg |-> IF ok THEN "none" ELSE "pl_swapchain_start_frame",
             val |-> IF ok THEN "true" ELSE "false", faults |-> {}]
  /\ hist' = Remember(hist, [op |-> "start", val |-> ok])
  /\ UNCHANGED <<proc, heap, acq, frameVars, mix, lutVars, renderVars>>

\* what finish_frame writes
FinishFrameFields(g) == [g EXCEPT !.started = FALSE]

\* gfx_lowlevel_gpu_ctx_finish_frame; its three asserts are the guard
gfx_lowlevel_gpu_ctx_finish_frame ==
  /\ proc = "running"
  /\ gpu.handle /\ gpu.swchain /\ gpu.started
  /\ Len(hist) < MaxHist
  /\ gpu' = FinishFrameFields(gpu)
  /\ events' = <<Call("pl_swapchain_swap_buffers"), Call("pl_swapchain_submit_frame")>>
  /\ ret' = [op |-> "finish_frame", arg |-> "none", val |-> "0", faults |-> {}]
  /\ hist' = Remember(hist, [op |-> "finish", val |-> TRUE])
  /\ UNCHANGED <<proc, heap, acq, swGen, frameVars, mix, lutVars, renderVars>>


----------------------------------------------------------------------------
(* struct gfx_lowlevel_frame_ctx *)

NoSws == [w |-> 0, h |-> 0, fmt |-> "none"]
NoScale == [ctx |-> NoSws, src |-> NoSws]

\* memset(frame, 0, ...).  `stale` is history: the GPU context that
\* ctx_backref points to has been destroyed since
FrameZero == [handle |-> FALSE, is_mapped |-> FALSE, tex |-> [i \in 0..3 |-> FALSE],
              to_rgba |-> NoSws, backref |-> FALSE, stale |-> FALSE]

Formats == {"VIDEOTOOLBOX", "NV12", "YUV420P"}
\* sizes differ from 1x1 in one dimension at a time
SrcFrames == {s \in [w : 1..MaxDim, h : 1..MaxDim, fmt : Formats] : s.w = 1 \/ s.h = 1}

\* gfx_lowlevel_frame_ctx_init(ctx)
gfx_lowlevel_frame_ctx_init(ctxNull, mallocFails) ==
  /\ proc = "running"
  /\ ~frame.handle
  /\ ~ctxNull => gpu.handle
  /\ LET ok  == ~ctxNull /\ ~mallocFails
         evs == IF ok THEN <<Acq("frame")>> ELSE <<>>
         \* a new struct: nothing of an earlier frame context is reachable from it
         h   == IF ok THEN [r \in ResIds |-> IF r \in FrameRes /\ heap[r].st = "freed"
                                             THEN Fresh ELSE heap[r]]
                ELSE heap
     IN  /\ events' = evs
         /\ heap' = ApplyEvents(h, evs)
         /\ frame' = IF ok THEN [FrameZero EXCEPT !.handle = TRUE, !.backref = TRUE]
                     ELSE frame
         /\ ret' = [op |-> "frame_ctx_init",
                    arg |-> IF ctxNull THEN "NULL" ELSE IF mallocFails THEN "malloc" ELSE "none",
                    val |-> IF ok THEN "frame" ELSE "NULL",
                    faults |-> {}]
  /\ UNCHANGED <<proc, gpuVars, scaled, mix, lutVars, renderVars>>

\* gfx_lowlevel_frame_create_texture on a live context and frame
gfx_lowlevel_frame_create_texture(fail) ==
  /\ proc = "running"
  /\ gpu.handle /\ frame.handle
  /\ LET evs == IF fail = "none" THEN <<Acq("tex0")>> ELSE <<>>
         \* frame->tex[0] is overwritten: a texture it held is lost
         h   == IF fail = "pl_find_named_fmt" THEN heap ELSE Leak(heap, {"tex0"})
     IN  /\ events' = evs
         /\ heap' = ApplyEvents(h, evs)
         /\ frame' = IF fail = "pl_find_named_fmt" THEN frame
                     ELSE [frame EXCEPT !.tex[0] = (fail = "none")]
         /\ ret' = [op |-> "frame_create_texture", arg |-> fail,
                    val |-> IF fail = "none" THEN "0" ELSE "EINVAL", faults |-> {}]
  /\ UNCHANGED <<proc, gpuVars, scaled, mix, lutVars, renderVars>>

\* the pixel format the conversion context is created for (lines 186-189)
SwsFormat(fmt) == IF fmt = "VIDEOTOOLBOX" THEN "NV12" ELSE fmt

\* the wrapped calls of gfx_lowlevel_map_frame_ctx that can fail, in program order
MapStepNo(s) ==
  CASE s = "sws_getContext" -> 1
    [] s = "av_frame_alloc" -> 2
    [] s = "av_hwframe_transfer_data" -> 3
    [] s = "av_frame_alloc_rgba" -> 4
    [] s = "av_frame_get_buffer" -> 5
    [] s = "sws_scale" -> 6
    [] s = "pl_map_avframe_ex" -> 7
    [] OTHER -> 8

\* whether the call to s is on the path at all, for this dst and src: the
\* conversion context is created once (line 185), the transfer frame only for
\* a hardware frame (line 206)
MapStepRuns(f, src, s) ==
  CASE s = "sws_getContext" -> f.to_rgba = NoSws
    [] s \in {"av_frame_alloc", "av_hwframe_transfer_data"} -> src.fmt = "VIDEOTOOLBOX"
    [] OTHER -> TRUE

\* pl_map_avframe_ex returns bool; the code stores it in an int and tests ret < 0
MapRet(ok) == IF ok THEN 1 ELSE 0

\* gfx_lowlevel_map_frame_ctx(ctx, dst, src) with all three non-NULL and live;
\* `fail` is the wrapped call that fails ("none": none does).  The result is
\* [evs, val, frame, proc, scaled].
MapFrame(f, src, fail) ==
  LET vt     == src.fmt = "VIDEOTOOLBOX"
      \* whether step s ran and succeeded / was reached
      past(s)    == MapStepRuns(f, src, s) /\ MapStepNo(s) < MapStepNo(fail)
      reached(s) == MapStepRuns(f, src, s) /\ MapStepNo(s) <= MapStepNo(fail)
      cfg    == [w |-> src.w, h |-> src.h, fmt |-> SwsFormat(src.fmt)]
      sws    == IF f.to_rgba # NoSws THEN f.to_rgba
                ELSE IF past("sws_getContext") THEN cfg ELSE NoSws
      \* the frame sws_scale is given: tmp (NV12) for a hardware frame
      given  == [w |-> src.w, h |-> src.h, fmt |-> SwsFormat(src.fmt)]
      mapOk  == past("pl_map_avframe_ex")
      \* lines 259-262: the failure branch is taken only when ret < 0
      mapSeenFailed == reached("pl_map_avframe_ex") /\ MapRet(mapOk) < 0
      atEnd  == reached("pl_map_avframe_ex") /\ ~mapSeenFailed
      exits  == fail = "av_hwframe_transfer_data"
      \* tmp and rgba_frame live only inside the call
      freeTmp  == IF past("av_frame_alloc") THEN <<Call("av_frame_free_tmp")>> ELSE <<>>
      freeRgba == IF past("av_frame_alloc_rgba") THEN <<Call("av_frame_free_rgba")>> ELSE <<>>
      evs ==
        (IF past("sws_getContext") THEN <<Acq("to_rgba")>> ELSE <<>>)
        \o (IF fail # "sws_getContext" /\ f.is_mapped THEN <<Rel("mapping", "vk")>> ELSE <<>>)
        \o (IF past("av_frame_alloc") THEN <<Call("av_frame_alloc_tmp")>> ELSE <<>>)
        \o (IF reached("av_hwframe_transfer_data") THEN <<Call("av_hwframe_transfer_data")>>
            ELSE <<>>)
        \o (IF past("av_frame_alloc_rgba") THEN <<Call("av_frame_alloc_rgba")>> ELSE <<>>)
        \o (IF reached("sws_scale")
            THEN <<[call |-> "sws_scale", obj |-> "none", via |-> "to_rgba"]>> ELSE <<>>)
        \o (IF mapOk THEN <<Acq("mapping")>> \o (IF f.tex[0] THEN <<>> ELSE <<Acq("tex0")>>)
            ELSE <<>>)
        \o (IF exits \/ mapSeenFailed THEN <<>>
            ELSE IF atEnd THEN freeTmp \o freeRgba
            ELSE IF fail = "av_frame_alloc_rgba" THEN freeTmp
            ELSE IF fail \in {"av_frame_get_buffer", "sws_scale"} THEN freeRgba \o freeTmp
            ELSE <<>>)
      val == IF exits THEN "exit"
             ELSE IF atEnd THEN "0"
             ELSE IF fail \in {"sws_getContext", "av_frame_alloc", "av_frame_alloc_rgba"}
                  THEN "ENOMEM"
             ELSE "AVERROR"
  IN  [evs |-> evs, val |-> val, exits |-> exits,
       frame |-> [f EXCEPT !.to_rgba = sws,
                           !.is_mapped = IF atEnd THEN TRUE ELSE @,
                           !.tex[0] = IF mapOk THEN TRUE ELSE @],
       scaled |-> IF reached("sws_scale") THEN [ctx |-> sws, src |-> given] ELSE NoScale]

gfx_lowlevel_map_frame_ctx(src, fail) ==
  /\ proc = "running"
  /\ gpu.handle /\ frame.handle
  /\ fail = "none" \/ MapStepRuns(frame, src, fail)
  /\ LET r == MapFrame(frame, src, fail)
     IN  /\ events' = r.evs
         /\ heap' = ApplyEvents(heap, r.evs)
         /\ frame' = r.frame
         /\ scaled' = r.scaled
         /\ proc' = IF r.exits THEN "exited" ELSE proc
         /\ ret' = [op |-> "map_frame_ctx", arg |-> fail, val |-> r.val, faults |-> FaultsOf(heap, r.evs)]
  /\ UNCHANGED <<gpuVars, mix, lutVars, renderVars>>

\* gfx_lowlevel_map_frame_ctx with a NULL argument: line 180
gfx_lowlevel_map_frame_ctx_null ==
  /\ proc = "running"
  /\ events' = <<>>
  /\ ret' = [op |-> "map_frame_ctx", arg |-> "NULL", val |-> "EINVAL", faults |-> {}]
  /\ UNCHANGED <<proc, heap, gpuVars, frameVars, mix, lutVars, renderVars>>

\* the body of gfx_lowlevel_frame_ctx_destroy once its condition holds
FrameDestroyEvents(f) ==
  (IF f.is_mapped THEN <<Rel("mapping", "vk")>> ELSE <<>>)
  \o (IF f.tex[0] THEN <<Rel("tex0", "vk")>> ELSE <<>>)
  \o (IF f.tex[1] THEN <<Rel("tex1", "vk")>> ELSE <<>>)
  \o (IF f.tex[2] THEN <<Rel("tex2", "vk")>> ELSE <<>>)
  \o (IF f.tex[3] THEN <<Rel("tex3", "vk")>> ELSE <<>>)
  \o (IF f.to_rgba # NoSws THEN <<Rel("to_rgba", "none")>> ELSE <<>>)
  \o <<Rel("frame", "none")>>

\* the reads of the condition on lines 341-342, given that frame and *frame are
\* non-NULL: (*frame)->ctx_backref, then ->swchain and ->vk->gpu behind it
FrameDestroyReads(f) ==
  IF f.backref THEN <<[call |-> "read", obj |-> "none", via |-> "ctx"],
                      [call |-> "read", obj |-> "none", via |-> "vk"]>>
  ELSE <<>>

\* What the condition on lines 341-342 can evaluate to.  With the GPU context
\* alive it is swchain != NULL && vk->gpu != NULL, which holds of every context
\* init returned.  With the GPU context destroyed the fields are read from freed
\* memory: either value can come back.
FrameDestroyTests(f, g) ==
  IF ~f.handle \/ ~f.backref THEN {FALSE}
  ELSE IF f.stale THEN {TRUE, FALSE}
  ELSE {g.swchain /\ g.vk}

\* gfx_lowlevel_frame_ctx_destroy(&frame); argNull: destroy(NULL)
gfx_lowlevel_frame_ctx_destroy(argNull, test) ==
  /\ proc = "running"
  /\ test \in (IF argNull THEN {FALSE} ELSE FrameDestroyTests(frame, gpu))
  /\ LET reads == IF argNull \/ ~frame.handle THEN <<>> ELSE FrameDestroyReads(frame)
         evs   == reads \o (IF test THEN FrameDestroyEvents(frame) ELSE <<>>)
     IN  /\ events' = evs
         /\ heap' = ApplyEvents(heap, evs)
         /\ frame' = IF test THEN FrameZero ELSE frame
         /\ ret' = [op |-> "frame_ctx_destroy", arg |-> DestroyArg(argNull, frame.handle),
                    val |-> "void",
                    faults |-> FaultsOf(heap, evs)]
  /\ UNCHANGED <<proc, gpuVars, scaled, mix, lutVars, renderVars>>

----------------------------------------------------------------------------
(* struct gfx_lowlevel_mix_ctx *)

Texts == {"prelude", "header", "body"}

\* memset(mix_ctx, 0, ...); texts: which of prelude/header/body are non-NULL
MixZero == [handle |-> FALSE, texts |-> {}, vars |-> FALSE, num_vars |-> 0,
            dispatch |-> FALSE]

\* var_copy[i] = vars[i] copies the struct: the copy's var.name and data are the
\* caller's pointers.  The memory entry i of a context's vars array points to:
VarPointees(i) == <<VarName(i), VarData(i)>>

\* the frees of the loop on lines 628-631
RECURSIVE MixVarFrees(_, _)
MixVarFrees(i, n) ==
  IF i > n THEN <<>>
  ELSE <<Rel(VarPointees(i)[1], "none"), Rel(VarPointees(i)[2], "none")>>
       \o MixVarFrees(i + 1, n)

\* gfx_lowlevel_mix_ctx_destroy on a non-NULL *mix_ctx with fields x;
\* free(NULL) does nothing
MixDestroyEvents(m, x) ==
  (IF "prelude" \in x.texts THEN <<Rel(MixR("prelude", m), "none")>> ELSE <<>>)
  \o (IF "header" \in x.texts THEN <<Rel(MixR("header", m), "none")>> ELSE <<>>)
  \o (IF "body" \in x.texts THEN <<Rel(MixR("body", m), "none")>> ELSE <<>>)
  \o MixVarFrees(1, x.num_vars)
  \o (IF x.vars THEN <<Rel(MixR("vars", m), "none")>> ELSE <<>>)
  \o (IF x.dispatch THEN <<Rel(MixR("dispatch", m), "none")>> ELSE <<>>)
  \o <<Rel(MixR("mix", m), "none")>>

MixInitFails == {"none", "malloc_mix", "malloc_vars", "pl_dispatch_create"}

\* gfx_lowlevel_mix_ctx_init(ctx, prelude, header, body, vars, num_vars) into
\* the caller's handle m; texts: which of the three strings are non-NULL
gfx_lowlevel_mix_ctx_init(m, ctxNull, texts, num_vars, fail) ==
  /\ proc = "running"
  /\ ~mix[m].handle
  /\ ~ctxNull => gpu.handle
  /\ LET copies == (IF "prelude" \in texts THEN <<Acq(MixR("prelude", m))>> ELSE <<>>)
                   \o (IF "header" \in texts THEN <<Acq(MixR("header", m))>> ELSE <<>>)
                   \o (IF "body" \in texts THEN <<Acq(MixR("body", m))>> ELSE <<>>)
         \* the struct as gfx_lowlevel_mix_ctx_destroy finds it on each failure path
         early == [MixZero EXCEPT !.handle = TRUE, !.texts = texts]
         full  == [early EXCEPT !.vars = TRUE, !.num_vars = num_vars]
         evs ==
           IF ctxNull \/ fail = "malloc_mix" THEN <<>>
           ELSE <<Acq(MixR("mix", m))>> \o copies \o
                (IF fail = "malloc_vars" THEN MixDestroyEvents(m, early)
                 ELSE <<Acq(MixR("vars", m))>> \o
                      (IF fail = "pl_dispatch_create" THEN MixDestroyEvents(m, full)
                       ELSE <<Acq(MixR("dispatch", m))>>))
         ok == ~ctxNull /\ fail = "none"
         \* a new struct: nothing of the handle's earlier context is reachable from it
         h  == [r \in ResIds |-> IF r \in MixOf[m] /\ heap[r].st = "freed"
                                 THEN Fresh ELSE heap[r]]
     IN  /\ events' = evs
         /\ heap' = ApplyEvents(h, evs)
         /\ mix' = IF ok THEN [mix EXCEPT ![m] = [full EXCEPT !.dispatch = TRUE]] ELSE mix
         /\ ret' = [op |-> "mix_ctx_init", arg |-> IF ctxNull THEN "NULL" ELSE fail,
                    val |-> IF ok THEN "mix" ELSE "NULL",
                    faults |-> FaultsOf(h, evs)]
  /\ UNCHANGED <<proc, gpuVars, frameVars, lutVars, renderVars>>

\* gfx_lowlevel_mix_ctx_destroy(&mix_ctx) on the caller's handle m; argNull: destroy(NULL)
gfx_lowlevel_mix_ctx_destroy(m, argNull) ==
  /\ proc = "running"
  /\ LET evs == IF argNull \/ ~mix[m].handle THEN <<>> ELSE MixDestroyEvents(m, mix[m])
     IN  /\ events' = evs
         /\ heap' = ApplyEvents(heap, evs)
         /\ mix' = IF argNull THEN mix ELSE [mix EXCEPT ![m] = MixZero]
         /\ ret' = [op |-> "mix_ctx_destroy", arg |-> DestroyArg(argNull, mix[m].handle),
                    val |-> "void", faults |-> FaultsOf(heap, evs)]
  /\ UNCHANGED <<proc, gpuVars, frameVars, lutVars, renderVars>>

----------------------------------------------------------------------------
(* struct gfx_lowlevel_lut *)

LutZero == [handle |-> FALSE, lut_filename |-> FALSE, lut |-> FALSE, lut_state |-> FALSE]

\* a destroy that releases the LUT's resources last-acquired first
LutDestroyOrderReversed == <<"lut_state", "lut_parsed", "lut_filename">>

\* the order in which gfx_lowlevel_destroy_lut releases the fields (lines 698-704)
LutDestroyOrder == <<"lut_filename", "lut_parsed", "lut_state">>

LutHolds(l, r) == CASE r = "lut_filename" -> l.lut_filename
                    [] r = "lut_parsed" -> l.lut
                    [] OTHER -> l.lut_state

\* gfx_lowlevel_destroy_lut on a non-NULL *lut with fields l; free(NULL) does nothing
LutDestroyEvents(l) ==
  LET held == SelectSeq(LutDestroyOrder, LAMBDA r : LutHolds(l, r))
  IN  [i \in 1..Len(held) |-> Rel(held[i], "none")] \o <<Rel("lut_struct", "none")>>

LutInitFails == {"none", "malloc_lut", "malloc_filename", "fopen", "malloc_contents",
                 "pl_lut_parse_cube"}

\* gfx_lowlevel_init_lut(ctx, lut_filename); argNull: either argument is NULL
gfx_lowlevel_init_lut(argNull, fail) ==
  /\ proc = "running"
  /\ ~lut.handle
  /\ ~argNull => gpu.handle
  /\ LET named == [LutZero EXCEPT !.handle = TRUE, !.lut_filename = TRUE]
         evs ==
           IF argNull \/ fail = "malloc_lut" THEN <<>>
           ELSE IF fail = "malloc_filename" THEN <<Acq("lut_struct"), Rel("lut_struct", "none")>>
           ELSE IF fail \in {"fopen", "malloc_contents"}
                THEN <<Acq("lut_struct"), Acq("lut_filename"),
                       Rel("lut_filename", "none"), Rel("lut_struct", "none")>>
           ELSE IF fail = "pl_lut_parse_cube"
                THEN <<Acq("lut_struct"), Acq("lut_filename")>> \o LutDestroyEvents(named)
           ELSE <<Acq("lut_struct"), Acq("lut_filename"), Acq("lut_parsed")>>
         ok == ~argNull /\ fail = "none"
         h  == [r \in ResIds |-> IF r \in LutRes /\ heap[r].st = "freed" THEN Fresh ELSE heap[r]]
     IN  /\ events' = evs
         /\ heap' = ApplyEvents(h, evs)
         /\ lut' = IF ok THEN [named EXCEPT !.lut = TRUE] ELSE lut
         /\ lutAcq' = IF ok THEN <<"lut_filename", "lut_parsed">> ELSE lutAcq
         /\ ret' = [op |-> "init_lut", arg |-> IF argNull THEN "NULL" ELSE fail,
                    val |-> IF ok THEN "lut" ELSE "NULL",
                    faults |-> FaultsOf(h, evs)]
  /\ UNCHANGED <<proc, gpuVars, frameVars, mix, renderVars>>

\* gfx_lowlevel_destroy_lut(&lut); argNull: destroy(NULL)
gfx_lowlevel_destroy_lut(argNull) ==
  /\ proc = "running"
  /\ LET evs == IF argNull \/ ~lut.handle THEN <<>> ELSE LutDestroyEvents(lut)
     IN  /\ events' = evs
         /\ heap' = ApplyEvents(heap, evs)
         /\ lut' = IF argNull THEN lut ELSE LutZero
         /\ ret' = [op |-> "destroy_lut", arg |-> DestroyArg(argNull, lut.handle),
                    val |-> "0", faults |-> FaultsOf(heap, evs)]
  /\ UNCHANGED <<proc, gpuVars, frameVars, mix, lutAcq, renderVars>>

----------------------------------------------------------------------------
(* gfx_lowlevel_gpu_ctx_render *)

\* the size of the buffers the descriptor and attribute names are printed into
NameSize == 32

Digits == <<"0", "1", "2", "3", "4", "5", "6", "7", "8", "9">>

\* "%d" of i >= 0, as a sequence of characters
RECURSIVE Decimal(_)
Decimal(i) == IF i < 10 THEN <<Digits[i + 1]>>
              ELSE Decimal(i \div 10) \o <<Digits[(i % 10) + 1]>>

\* snprintf(name, size, "<prefix>%d", i): at most size - 1 characters are kept
Snprintf(size, prefix, i) ==
  LET full == prefix \o Decimal(i)
  IN  IF Len(full) <= size - 1 THEN full ELSE SubSeq(full, 1, size - 1)

TexPrefix == <<"s", "r", "c", "_", "t", "e", "x">>
CoordPrefix == <<"s", "r", "c", "_", "c", "o", "o", "r", "d">>

\* a struct pl_frame whose plane 0 holds texture t
PlFrame(t) == [planes |-> [p \in 0..1 |-> [texture |-> IF p = 0 THEN t ELSE "plane1"]]]

\* descs[i], lines 411-422
ShaderDesc(i, src_frames) ==
  [name |-> Snprintf(NameSize, TexPrefix, i), type |-> "PL_DESC_SAMPLED_TEX",
   binding |-> i, access |-> "PL_DESC_ACCESS_READONLY",
   object |-> src_frames[i].planes[0].texture]

\* the corners in winding order instead: (x0,y0), (x1,y0), (x1,y1), (x0,y1)
VertsWinding(r) == <<r.x0, r.y0, r.x1, r.y0, r.x1, r.y1, r.x0, r.y1>>

\* verts[0..7], lines 453-460
Verts(r) == <<r.x0, r.y0, r.x1, r.y0, r.x0, r.y1, r.x1, r.y1>>

\* attribs[i], lines 461-469: data points at verts, verts + 2, verts + 4, verts + 6,
\* each read as two floats
ShaderVa(i, params) ==
  LET v == Verts(params.src)
  IN  [name |-> Snprintf(NameSize, CoordPrefix, i), offset |-> 0,
       data |-> <<<<v[1], v[2]>>, <<v[3], v[4]>>, <<v[5], v[6]>>, <<v[7], v[8]>>>>]

\* sh_params, lines 474-490
CustomShader(params, src_frames, num_frames) ==
  [prelude |-> params.prelude, header |-> params.header, body |-> params.body,
   descriptors |-> [i \in 0..num_frames - 1 |-> ShaderDesc(i, src_frames)],
   num_descriptors |-> num_frames,
   variables |-> params.vars, num_variables |-> params.num_vars,
   vertex_attribs |-> [i \in 0..num_frames - 1 |-> ShaderVa(i, params)],
   num_vertex_attribs |-> num_frames]

\* the target of pl_dispatch_finish, line 532
DispatchTarget(dst_frame) == dst_frame.planes[0].texture

\* the pointer arguments render tests on line 383
RenderNullChecked == {"ctx", "src_frames", "dst_frame", "params"}

\* the calls of render that can fail, in program order
RenderStepNo(s) ==
  CASE s = "pl_dispatch_begin" -> 1
    [] s = "malloc_descs" -> 2
    [] s = "malloc_desc_name" -> 3
    [] s = "malloc_attribs" -> 4
    [] s = "malloc_attrib_name" -> 5
    [] s = "malloc_verts" -> 6
    [] s = "pl_shader_custom" -> 7
    [] s = "pl_shader_finalize" -> 8
    [] s = "pl_dispatch_finish" -> 9
    [] OTHER -> 10

\* whether the call to s is on the path at all: the per-frame allocations only
\* with a frame, finalize only in debug mode, finish only otherwise
RenderStepRuns(num_frames, debug, s) ==
  CASE s \in {"malloc_desc_name", "malloc_attrib_name", "malloc_verts"} -> num_frames > 0
    [] s = "pl_shader_finalize" -> debug
    [] s = "pl_dispatch_finish" -> ~debug
    [] OTHER -> TRUE

RenderFails == {"none", "pl_dispatch_begin", "malloc_descs", "malloc_desc_name",
                "malloc_attribs", "malloc_attrib_name", "malloc_verts", "pl_shader_custom",
                "pl_shader_finalize", "pl_dispatch_finish"}

\* The body of render from line 389 on, with ctx, mix_ctx, params, dst_frame and
\* src_frames non-NULL.  l: the fields of *lut, LutZero for a NULL lut.
\* In debug mode the shader is handed back by pl_dispatch_abort (which also sets
\* sh to NULL) before pl_shader_finalize(sh) runs: what finalize does with it is
\* not defined, and `crash` chooses between a crash and a return (NULL when
\* fail = "pl_shader_finalize").
Render(l, params, dst_frame, src_frames, num_frames, debug, fail, crash) ==
  LET past(s)    == RenderStepRuns(num_frames, debug, s) /\ RenderStepNo(s) < RenderStepNo(fail)
      reached(s) == RenderStepRuns(num_frames, debug, s) /\ RenderStepNo(s) <= RenderStepNo(fail)
      withLut    == past("pl_shader_custom") /\ l.handle /\ l.lut
      crashes    == reached("pl_shader_finalize") /\ crash
      exits      == fail = "pl_shader_finalize" /\ debug /\ ~crash
      evs ==
        (IF past("pl_dispatch_begin") THEN <<Acq("sh")>> ELSE <<Call("pl_dispatch_begin")>>)
        \o (IF reached("pl_shader_custom")
            THEN <<[call |-> "pl_shader_custom", obj |-> "none", via |-> "sh"]>> ELSE <<>>)
        \o (IF withLut
            THEN <<[call |-> "pl_shader_custom_lut", obj |-> "none", via |-> "sh"]>>
                 \o (IF l.lut_state THEN <<>> ELSE <<Acq("lut_state")>>)
            ELSE <<>>)
        \o (IF reached("pl_shader_finalize")
            THEN <<Rel("sh", "none"),
                   [call |-> "pl_shader_finalize", obj |-> "none", via |-> "sh"]>>
            ELSE <<>>)
        \o (IF reached("pl_dispatch_finish") THEN <<Rel("sh", "none")>> ELSE <<>>)
      val == IF crashes THEN "crash"
             ELSE IF exits THEN "exit"
             ELSE IF fail = "none" THEN "0"
             ELSE IF fail \in {"pl_dispatch_begin", "pl_shader_custom", "pl_dispatch_finish"}
                  THEN "EINVAL"
             ELSE "ENOMEM"
  IN  [evs |-> evs, val |-> val,
       proc |-> IF crashes THEN "crashed" ELSE IF exits THEN "exited" ELSE "running",
       lut_state |-> l.lut_state \/ withLut,
       fwd |-> [custom |-> IF reached("pl_shader_custom")
                           THEN CustomShader(params, src_frames, num_frames) ELSE "none",
                target |-> IF reached("pl_dispatch_finish")
                           THEN DispatchTarget(dst_frame) ELSE "none"]]

\* gfx_lowlevel_gpu_ctx_render with every argument it needs non-NULL and live;
\* useLut: lut is the caller's LUT, otherwise NULL
gfx_lowlevel_gpu_ctx_render(m, params, dst_frame, src_frames, num_frames, useLut, debug, fail, crash) ==
  /\ proc = "running"
  /\ gpu.handle /\ mix[m].handle
  /\ useLut => lut.handle
  /\ fail = "none" \/ RenderStepRuns(num_frames, debug, fail)
  /\ crash => debug /\ fail = "none"
  /\ LET r == Render(IF useLut THEN lut ELSE LutZero, params, dst_frame, src_frames,
                     num_frames, debug, fail, crash)
     IN  /\ events' = r.evs
         \* sh is a local: a shader not handed back by the return is lost
         /\ heap' = Leak(ApplyEvents(heap, r.evs), {"sh"})
         /\ lut' = IF useLut THEN [lut EXCEPT !.lut_state = r.lut_state] ELSE lut
         /\ lutAcq' = IF useLut /\ r.lut_state /\ ~lut.lut_state
                      THEN Append(lutAcq, "lut_state") ELSE lutAcq
         /\ fwd' = r.fwd
         /\ rargs' = [nulls |-> {}, params |-> params, dst_frame |-> dst_frame,
                      src_frames |-> src_frames, num_frames |-> num_frames, debug |-> debug]
         /\ proc' = r.proc
         /\ ret' = [op |-> "render", arg |-> fail, val |-> r.val, faults |-> FaultsOf(heap, r.evs)]
  /\ UNCHANGED <<gpuVars, frameVars, mix>>

\* gfx_lowlevel_gpu_ctx_render with the pointer arguments in `nulls` NULL.
\* mix_ctx is not among the arguments line 383 tests: with the others non-NULL,
\* line 389 reads mix_ctx->dispatch through the NULL pointer.
gfx_lowlevel_gpu_ctx_render_null(nulls) ==
  /\ proc = "running"
  /\ nulls # {}
  /\ "ctx" \notin nulls => gpu.handle
  /\ LET caught == nulls \cap RenderNullChecked # {}
     IN  /\ events' = <<>>
         /\ proc' = IF caught THEN proc ELSE "crashed"
         /\ ret' = [op |-> "render", arg |-> "NULL", val |-> IF caught THEN "EINVAL" ELSE "crash",
                    faults |-> IF caught THEN {} ELSE {"null_deref"}]
  /\ fwd' = NoFwd
  /\ rargs' = [NoArgs EXCEPT !.nulls = nulls]
  /\ UNCHANGED <<heap, gpuVars, frameVars, mix, lutVars>>

----------------------------------------------------------------------------
Init ==
  /\ proc = "running"
  \* the caller's shader variables exist before any call
  /\ heap = [r \in ResIds |-> IF r \in CallerRes THEN [st |-> "live", rel |-> 0] ELSE Fresh]
  /\ events = <<>>
  /\ ret = [op |-> "none", arg |-> "none", val |-> "none", faults |-> {}]
  /\ gpu = GpuZero
  /\ acq = <<>>
  /\ swGen = 0
  /\ hist = <<>>
  /\ frame = FrameZero
  /\ scaled = NoScale
  /\ mix = [m \in 1..MaxMix |-> MixZero]
  /\ lut = LutZero
  /\ lutAcq = <<>>
  /\ rargs = NoArgs
  /\ fwd = NoFwd

GpuNext ==
  \/ \E fail \in {"none"} \cup {InitSteps[i] : i \in 1..Len(InitSteps)} :
       gfx_lowlevel_gpu_ctx_init(fail)
  \/ \E argNull \in BOOLEAN : gfx_lowlevel_gpu_ctx_destroy(argNull)
  \/ \E ok \in BOOLEAN : gfx_lowlevel_gpu_ctx_handle_resize(ok)
  \/ \E ok \in BOOLEAN : gfx_lowlevel_gpu_ctx_start_frame(ok)
  \/ gfx_lowlevel_gpu_ctx_finish_frame

SpecGpu == Init /\ [][GpuNext]_vars

\* the frame context's lifetime against the GPU context's
FrameNext ==
  \/ gfx_lowlevel_gpu_ctx_init("none")
  \/ \E argNull \in BOOLEAN : gfx_lowlevel_gpu_ctx_destroy(argNull)
  \/ \E ctxNull, mallocFails \in BOOLEAN : gfx_lowlevel_frame_ctx_init(ctxNull, mallocFails)
  \/ \E fail \in {"none", "pl_find_named_fmt", "pl_tex_create"} :
       gfx_lowlevel_frame_create_texture(fail)
  \/ \E fail \in {"none", "sws_scale"} :
       gfx_lowlevel_map_frame_ctx([w |-> 1, h |-> 1, fmt |-> "YUV420P"], fail)
  \/ \E argNull, test \in BOOLEAN : gfx_lowlevel_frame_ctx_destroy(argNull, test)

SpecFrame == Init /\ [][FrameNext]_vars

MapFails == {"none", "sws_getContext", "av_frame_alloc", "av_hwframe_transfer_data",
             "av_frame_alloc_rgba", "av_frame_get_buffer", "sws_scale", "pl_map_avframe_ex"}

\* mapping source frames into one frame context of a live GPU context
MapNext ==
  \/ gfx_lowlevel_gpu_ctx_init("none")
  \/ gfx_lowlevel_frame_ctx_init(FALSE, FALSE)
  \/ \E src \in SrcFrames, fail \in MapFails : gfx_lowlevel_map_frame_ctx(src, fail)
  \/ gfx_lowlevel_map_frame_ctx_null
  \/ gfx_lowlevel_frame_ctx_destroy(FALSE, TRUE)

SpecMap == Init /\ [][MapNext]_vars

\* mix contexts made from the caller's one vars array
MixNext ==
  \/ gfx_lowlevel_gpu_ctx_init("none")
  \/ \E m \in 1..MaxMix : gfx_lowlevel_mix_ctx_init(m, TRUE, Texts, MaxVars, "none")
  \/ \E m \in 1..MaxMix, texts \in {{}, {"body"}, Texts},
        num_vars \in 0..MaxVars, fail \in MixInitFails :
          gfx_lowlevel_mix_ctx_init(m, FALSE, texts, num_vars, fail)
  \/ \E m \in 1..MaxMix, argNull \in BOOLEAN : gfx_lowlevel_mix_ctx_destroy(m, argNull)

SpecMix == Init /\ [][MixNext]_vars

\* the inputs of render
Rects == {[x0 |-> 0, y0 |-> 1, x1 |-> 2, y1 |-> 3]}
FilterParams == [src : Rects, prelude : {"params.prelude"}, header : {"params.header"},
                 body : {"params.body"}, vars : {"params.vars"}, num_vars : {MaxVars}]
\* src_frames: n frames whose plane-0 textures alternate, so neighbours differ
SrcFrameArray(n) == [i \in 0..n - 1 |-> PlFrame(IF i % 2 = 0 THEN "texA" ELSE "texB")]
RenderArgs == {"ctx", "mix_ctx", "params", "dst_frame", "src_frames"}

\* rendering with one mix context and one LUT on a live GPU context
RenderNext ==
  \/ gfx_lowlevel_gpu_ctx_init("none")
  \/ gfx_lowlevel_mix_ctx_init(1, FALSE, Texts, MaxVars, "none")
  \/ \E argNull \in BOOLEAN, fail \in {"none", "pl_lut_parse_cube"} :
       gfx_lowlevel_init_lut(argNull, fail)
  \/ \E argNull \in BOOLEAN : gfx_lowlevel_destroy_lut(argNull)
  \/ \E nulls \in SUBSET RenderArgs : gfx_lowlevel_gpu_ctx_render_null(nulls)
  \/ \E params \in FilterParams, n \in 0..MaxFrames, useLut, debug, crash \in BOOLEAN,
        fail \in RenderFails :
       gfx_lowlevel_gpu_ctx_render(1, params, PlFrame("texD"), SrcFrameArray(n), n,
                                   useLut, debug, fail, crash)

SpecRender == Init /\ [][RenderNext]_vars
----------------------------------------------------------------------------
(* Claims *)

IsPrefix(s, t) == Len(s) <= Len(t) /\ \A i \in 1..Len(s) : s[i] = t[i]

\* the order of acquisition the claims state for gfx_lowlevel_gpu_ctx_init
InitAcquireOrder == <<"ctx", "log", "vk", "vk_surface", "swchain", "renderer">>

\* C1: gfx_lowlevel_gpu_ctx_destroy undoes gfx_lowlevel_gpu_ctx_init in reverse
\* order.  Init acquires the struct, log, Vulkan context, surface, swapchain and
\* renderer in that order; a destroy of a live context (called by the caller or
\* by a failing init) releases exactly what init acquired, in the reverse
\* order, each handle only while it is live, and no handle after one it was
\* created from; the surface is destroyed while the Vulkan context it reads is
\* still alive.
C1_DestroyReversesInit ==
  /\ ret.op = "gpu_ctx_init" =>
       /\ IsPrefix(Objs(Acquires(events)), InitAcquireOrder)
       /\ Releases(events) # <<>> =>
            Objs(Releases(events)) = Reverse(Objs(Acquires(events)))
  /\ (ret.op = "gpu_ctx_destroy" /\ ret.arg = "live") =>
       /\ Objs(events) = Reverse(acq)
       /\ \A i \in 1..Len(events) : events[i].call = "release"
  /\ ret.op \in {"gpu_ctx_init", "gpu_ctx_destroy"} =>
       /\ ret.faults = {}
       /\ \A i, j \in 1..Len(events) :
            (i < j /\ events[i].call = "release" /\ events[j].call = "release")
              => events[i].obj \notin CreatedFrom(events[j].obj)

\* a complete context has been destroyed: all five handles and the struct
C1_Witness ==
  ret.op = "gpu_ctx_destroy" /\ ret.arg = "live" /\ Len(events) = 6

\* whether, by the calls in h, a frame is in progress: the most recent
\* start_frame returned true and no finish_frame has run since
FrameInProgress(h) ==
  \E i \in 1..Len(h) :
    /\ h[i].op = "start" /\ h[i].val
    /\ \A j \in (i + 1)..Len(h) : h[j].op \notin {"start", "finish"}

\* the step is a call of the frame-loop operation op
FrameLoopStep(op) == Len(hist') = Len(hist) + 1 /\ hist'[Len(hist')].op = op

\* C8: on a context init returned, with start_frame called only when no frame
\* is in progress and finish_frame only when one is: `started` is true exactly
\* when the most recent start_frame returned true and no finish_frame has run
\* since; a start_frame that returns false leaves started false and
\* window_frame unchanged (so it can be rerun); finish_frame swaps and submits
\* exactly one frame and resets started; handle_resize never changes started.
C8_StartedTracksFrame ==
  /\ [](gpu.handle => (gpu.started <=> FrameInProgress(hist)))
  /\ [][/\ (FrameLoopStep("start") /\ ret'.val = "false") =>
             /\ ~gpu'.started
             /\ gpu'.window_frame = gpu.window_frame
             /\ gpu'.swchain
        /\ FrameLoopStep("finish") =>
             /\ ~gpu'.started
             /\ events' = <<Call("pl_swapchain_swap_buffers"),
                            Call("pl_swapchain_submit_frame")>>
        /\ FrameLoopStep("resize") => gpu'.started = gpu.started]_vars

\* a start_frame that returned false was rerun, returned true, and the frame was finished
C8_Witness ==
  /\ Len(hist) >= 3
  /\ hist[1] = [op |-> "start", val |-> FALSE]
  /\ hist[2] = [op |-> "start", val |-> TRUE]
  /\ hist[3].op = "finish"
  /\ ~gpu.started

DestroyOps == {"gpu_ctx_destroy", "frame_ctx_destroy", "mix_ctx_destroy", "destroy_lut"}

\* C2: each of the four destroy operations is null-safe and idempotent: called
\* with NULL or with a pointer to a NULL handle it releases nothing; after a
\* destroy of a live handle the handle is NULL, and nothing is released a
\* second time.
C2_DestroyNullSafeIdempotent ==
  /\ (ret.op \in DestroyOps /\ ret.arg \in {"NULL", "null_handle"}) => events = <<>>
  /\ (ret.op = "gpu_ctx_destroy" /\ ret.arg = "live") => ~gpu.handle
  /\ (ret.op = "frame_ctx_destroy" /\ ret.arg = "live") => ~frame.handle
  /\ (ret.op = "mix_ctx_destroy" /\ ret.arg = "live") => \E m \in 1..MaxMix : ~mix[m].handle
  /\ (ret.op = "destroy_lut" /\ ret.arg = "live") => ~lut.handle
  /\ \A r \in GpuRes \cup FrameRes \cup MixRes \cup LutRes : heap[r].rel <= 1

Sentinels == {"NULL", "false", "-1", "EINVAL", "ENOMEM", "AVERROR"}

\* C3: every failure of a wrapped-library call inside a public operation is
\* reported to the caller as a sentinel return value; in particular no failure
\* in gfx_lowlevel_map_frame_ctx or gfx_lowlevel_gpu_ctx_render terminates the
\* process instead of returning.
C3_FailuresReturnSentinel ==
  /\ (ret.op # "none" /\ ret.arg \notin {"none", "NULL", "null_handle", "live"})
       => ret.val \in Sentinels
  /\ ret.op \in {"map_frame_ctx", "render"} => (ret.val # "exit" /\ proc # "exited")

\* C4: gfx_lowlevel_gpu_ctx_render with any of ctx, mix_ctx, params, dst_frame,
\* src_frames NULL returns EINVAL without dereferencing the pointer and without
\* calling the wrapped library.
C4_RenderNullChecks ==
  (ret.op = "render" /\ rargs.nulls # {}) =>
    /\ ret.val = "EINVAL"
    /\ "null_deref" \notin ret.faults
    /\ events = <<>>
    /\ proc = "running"

\* C5: gfx_lowlevel_mix_ctx_destroy frees only what gfx_lowlevel_mix_ctx_init
\* allocated: the caller's variable names and data stay valid after any init
\* and destroy (the destroy a failing init runs included), and making and
\* destroying two mix contexts from the same vars array frees nothing twice.
C5_MixDestroyFreesOnlyItsOwn ==
  /\ \A r \in CallerRes : heap[r].st = "live"
  /\ ret.op \in {"mix_ctx_init", "mix_ctx_destroy"} => "bad_release" \notin ret.faults

\* C6: gfx_lowlevel_frame_ctx_destroy undoes gfx_lowlevel_frame_ctx_init in any
\* order relative to the destruction of the GPU context: after a destroy of a
\* live frame context the handle is NULL, the mapping, the textures, the sws
\* context and the struct have each been released exactly once, and no GPU
\* context that has already been destroyed is read.
C6_FrameDestroyAnyOrder ==
  (ret.op = "frame_ctx_destroy" /\ ret.arg = "live") =>
    /\ ~frame.handle
    /\ \A r \in FrameRes : heap[r].st \in {"none", "freed"} /\ heap[r].rel <= 1
    /\ ret.faults = {}

\* C7 as stated: gfx_lowlevel_destroy_lut releases the LUT's resources in the
\* reverse of the order in which they were acquired (lut_state, then the parsed
\* LUT, then the filename), then the struct.
C7_LutDestroyReverseOrder ==
  (ret.op = "destroy_lut" /\ ret.arg = "live") =>
    Objs(events) = Reverse(lutAcq) \o <<"lut_struct">>

\* C7, amended: gfx_lowlevel_destroy_lut releases the LUT's resources in the
\* order in which they were acquired, not the reverse: the filename copy, then
\* the parsed LUT, then lut_state (acquired later, by render), each only if
\* non-null and exactly once, then the struct.
C7_LutDestroyAcquisitionOrder ==
  (ret.op = "destroy_lut" /\ ret.arg = "live") =>
    /\ Objs(events) = lutAcq \o <<"lut_struct">>
    /\ \A i \in 1..Len(events) : events[i].call = "release"
    /\ ret.faults = {}
    /\ \A r \in LutRes : heap[r].st \in {"none", "freed"} /\ heap[r].rel <= 1
    /\ ~lut.handle

\* a LUT that render has used is destroyed: filename, parsed LUT, lut_state, struct
C7_Witness ==
  ret.op = "destroy_lut" /\ ret.arg = "live" /\ Len(events) = 4

\* the characters of s as one string
RECURSIVE Join(_)
Join(s) == IF s = <<>> THEN "" ELSE Head(s) \o Join(Tail(s))

\* C9: for every num_frames = n >= 0, a successful non-debug render forwards
\* exactly n descriptors and n vertex attributes: descriptor i is a read-only
\* sampled texture named "src_tex<i>" with binding i bound to plane 0's texture
\* of src_frames[i]; vertex attribute i is named "src_coord<i>" and carries the
\* corners of params->src in the order (x0,y0), (x1,y0), (x0,y1), (x1,y1); the
\* shader text and variables are those of params; the target is plane 0's
\* texture of dst_frame.
C9_RenderForwards ==
  (ret.op = "render" /\ ret.val = "0" /\ rargs.nulls = {} /\ ~rargs.debug) =>
    LET c == fwd.custom
        n == rargs.num_frames
        p == rargs.params
    IN  /\ c.num_descriptors = n /\ DOMAIN c.descriptors = 0..n - 1
        /\ c.num_vertex_attribs = n /\ DOMAIN c.vertex_attribs = 0..n - 1
        /\ \A i \in 0..n - 1 :
             /\ c.descriptors[i].type = "PL_DESC_SAMPLED_TEX"
             /\ c.descriptors[i].access = "PL_DESC_ACCESS_READONLY"
             /\ Join(c.descriptors[i].name) = "src_tex" \o ToString(i)
             /\ c.descriptors[i].binding = i
             /\ c.descriptors[i].object = rargs.src_frames[i].planes[0].texture
             /\ Join(c.vertex_attribs[i].name) = "src_coord" \o ToString(i)
             /\ c.vertex_attribs[i].data = << <<p.src.x0, p.src.y0>>, <<p.src.x1, p.src.y0>>,
                                              <<p.src.x0, p.src.y1>>, <<p.src.x1, p.src.y1>> >>
        /\ c.prelude = p.prelude /\ c.header = p.header /\ c.body = p.body
        /\ c.variables = p.vars /\ c.num_variables = p.num_vars
        /\ fwd.target = rargs.dst_frame.planes[0].texture

\* a successful non-debug render of the largest number of source frames
C9_Witness ==
  /\ ret.op = "render" /\ ret.val = "0" /\ rargs.nulls = {} /\ ~rargs.debug
  /\ rargs.num_frames = MaxFrames
  /\ fwd.target = "texD"

\* C10: a failing gfx_lowlevel_gpu_ctx_init returns NULL with every resource
\* the earlier steps acquired, the struct included, released exactly once; it
\* returns a context only with log, vk, vk_surface, swchain and renderer all
\* non-null and started false.
C10_InitFailureReleasesAll ==
  /\ (ret.op = "gpu_ctx_init" /\ ret.val = "NULL") =>
       \A r \in GpuRes :
         /\ heap[r].st # "leaked"
         /\ (\E i \in 1..Len(events) : events[i] = Acq(r))
              => (heap[r].st = "freed" /\ heap[r].rel = 1)
  /\ (ret.op = "gpu_ctx_init" /\ ret.val = "ctx") =>
       /\ gpu.log /\ gpu.vk /\ gpu.vk_surface /\ gpu.swchain /\ gpu.renderer
       /\ ~gpu.started

\* C11: with a frame context, is_mapped is true exactly when pl_frame holds a
\* live mapping (a successful pl_map_avframe_ex not yet undone by
\* pl_unmap_avframe), and no mapping is unmapped more than once: whatever step
\* of gfx_lowlevel_map_frame_ctx fails, and after gfx_lowlevel_frame_ctx_destroy.
C11_IsMappedTracksMapping ==
  /\ frame.is_mapped <=> heap["mapping"].st = "live"
  /\ heap["mapping"].rel <= 1

\* the calls of render that use the shader
ShaderUses == {"pl_shader_custom", "pl_shader_custom_lut", "pl_shader_finalize"}

\* where in evs the shader is handed back to the dispatcher
HandBacks(evs) == {i \in 1..Len(evs) : evs[i].call = "release" /\ evs[i].obj = "sh"}

\* C12: a render whose pl_dispatch_begin succeeded hands the shader back to the
\* dispatcher exactly once (pl_dispatch_finish or pl_dispatch_abort) on every
\* path, before it returns, and makes no call on the shader after that.
C12_ShaderHandedBackOnce ==
  (ret.op = "render" /\ \E i \in 1..Len(events) : events[i] = Acq("sh")) =>
    /\ Cardinality(HandBacks(events)) = 1
    /\ ret.val \notin {"exit", "crash"}
    /\ \A i \in HandBacks(events) : \A j \in 1..Len(events) :
         (j > i /\ events[j].call \in ShaderUses) => events[j].via # "sh"

\* C13: the conversion context a gfx_lowlevel_map_frame_ctx call passes to
\* sws_scale was created for the width, height and pixel format (VIDEOTOOLBOX
\* as NV12) of the frame that call scales, also when an earlier call on the
\* same frame context had a source of another size or format.
C13_ScaleContextMatchesSource ==
  scaled # NoScale => scaled.ctx = scaled.src
====
